---- MODULE Spec2Model ----
(***************************************************************************)
(* Streaming XML ingestion of the health-visualizer repository:            *)
(* src/src/app/api/parse-xml/route.ts (POST and processXMLFile).           *)
(*                                                                         *)
(* One ingestion session is modelled: the request (fileId, dateRange), the *)
(* promise returned by processXMLFile, the sax stream's handlers (opentag, *)
(* closetag, error, end), the fs read stream piped into it, the            *)
(* ReadableStream controller the handlers enqueue on, and the caller that  *)
(* consumes or cancels the event stream.                                   *)
(*                                                                         *)
(* JavaScript runs one task at a time: the handlers fired by one chunk     *)
(* (parser.write) or by parser.end() run back to back, the promise's catch *)
(* callback runs as a microtask when that task has finished, and the       *)
(* caller and the file system act only between tasks.                      *)
(*                                                                         *)
(* Spec is the session over every small source. The other specifications   *)
(* reuse its handlers on narrower inputs: FilterSpec and WorkoutSpec probe *)
(* the date filter and the workout branch, ScenarioSpec and FixedSpec read *)
(* one given source, RejectSpec a rejected record, PairSpec runs a second  *)
(* session next to the first, and LegacySpec is the streaming handler of   *)
(* src/src/app/api/upload/route.ts. WorkoutFilterSpec opens workouts in    *)
(* and out of the window, BothSpec feeds one source to the handlers of the *)
(* two routes, ClientSpec is the reader loop of health-data-upload.tsx and *)
(* UploadSpec the uploadHealthData mutation of the tRPC health router.     *)
(***************************************************************************)
EXTENDS Integers, Sequences, FiniteSets, TLC

VARIABLES
    dateRange,        \* request body: dateRange {startDate, endDate}
    pc,               \* position of the session (see PcValues)
    records,          \* const records: ParsedHealthData[]
    bytesProcessed,   \* let bytesProcessed
    totalBytes,       \* let totalBytes
    recordsProcessed, \* let recordsProcessed
    currentRecord,    \* let currentRecord
    isInRecord,       \* let isInRecord
    isInWorkout,      \* let isInWorkout
    out,              \* every chunk controller.enqueue accepted, in order
    delivered,        \* how many of them the caller has read
    closeRequested,   \* controller.close() has been called
    cancelled,        \* the caller cancelled the stream
    promise,          \* state of the promise of processXMLFile
    reason,           \* the reason it was rejected with
    catchRan,         \* the .catch callback of POST has run
    unlinkAttempts,   \* calls of unlinkAsync(filePath)
    escaped,          \* an exception left a handler or the catch callback
    stack,            \* the scanner's open elements
    piped,            \* readStream is still piped into the parser
    nOpened,          \* start tags the scanner has reported
    nextId,           \* number of the next accepted element (tells records apart)
    truncated,        \* the source ended in the middle of a tag
    closedAccepted,   \* Closed("record") handled with a complete candidate
    appended,         \* records.push calls so far
    filterArg,        \* last argument isWithinDateRange was probed with
    filterResult,     \* and its result
    probeNode,        \* last workout element the opentag handler was probed with
    probeRecords,     \* and the records it pushed
    files,            \* which paths of the uploads directory hold a file
    fdOpen,           \* readStream has opened its file
    other,            \* a second session of the server: its path, and
                      \* whether its end handler has run
    client,           \* HealthDataUpload.onDrop reading the parse response
    both,             \* the two XML handlers fed the same source, side by side
    upload            \* one call of the uploadHealthData mutation

vars == <<dateRange, pc, records, bytesProcessed, totalBytes, recordsProcessed,
          currentRecord, isInRecord, isInWorkout, out, delivered,
          closeRequested, cancelled, promise, reason, catchRan, unlinkAttempts,
          escaped, stack, piped, nOpened, nextId, truncated, closedAccepted,
          appended, filterArg, filterResult, probeNode, probeRecords, files,
          fdOpen, other, client, both, upload>>

-----------------------------------------------------------------------------
(* Bounds of the model *)

\* elements (start tags) of one source
MaxElements == 2
\* updates on the wire before the terminal one
MaxWire == 2
\* size of the source, in read units
MaxBytes == 2
\* records in the input of one uploadHealthData call
MaxUpload == 3

(* Program constants, scaled down so that a batch fills within MaxElements *)

\* const BATCH_SIZE = 5000
BATCH_SIZE == 2
\* recordsProcessed % 5000 === 0
ProgressEvery == 2
\* new ReadableStream({start}) without a strategy: high-water mark 1
HighWaterMark == 1
\* upload/route.ts: recordsProcessed % 1000 === 0
LegacyProgressEvery == 2
\* batchSize of uploadHealthData (1000 in the source)
batchSize == 2

-----------------------------------------------------------------------------
(* JavaScript values *)

Null == "<null>"
NotProbed == "<none>"
Undefined == "<undefined>"
NaN == 0 - 1

\* a string used as a condition: undefined, null and "" are falsy
Truthy(s) == s # Undefined /\ s # Null /\ s # ""

\* new Date(s).getTime(), in days since 2023-12-31; NaN for an Invalid Date
ParseDate(s) ==
    CASE s = "2024-01-01" -> 1
      [] s = "2024-02-01" -> 32
      [] s = "2024-02-01T00:00:00Z" -> 32
      [] s = "2024-02-15" -> 46
      [] s = "2024-03-01" -> 61
      [] s = "2024-03-02" -> 62
      [] OTHER -> NaN

\* a < b on two Dates: false when either is an Invalid Date
DateLt(a, b) == a # NaN /\ b # NaN /\ a < b
\* a > b on two Dates
DateGt(a, b) == a # NaN /\ b # NaN /\ a > b

-----------------------------------------------------------------------------
(* Request and source alphabets *)

\* Object.values(HEALTH_DATA_TYPES)
RelevantTypes ==
    {"HKQuantityTypeIdentifierStepCount",
     "HKQuantityTypeIdentifierDistanceWalkingRunning",
     "HKQuantityTypeIdentifierActiveEnergyBurned",
     "HKQuantityTypeIdentifierBasalEnergyBurned",
     "HKQuantityTypeIdentifierHeartRate",
     "HKQuantityTypeIdentifierHeartRateVariabilitySDNN",
     "HKQuantityTypeIdentifierRestingHeartRate",
     "HKQuantityTypeIdentifierBodyMass",
     "HKQuantityTypeIdentifierHeight",
     "HKQuantityTypeIdentifierBodyMassIndex",
     "HKQuantityTypeIdentifierBodyFatPercentage",
     "HKCategoryTypeIdentifierSleepAnalysis",
     "HKQuantityTypeIdentifierBloodPressureSystolic",
     "HKQuantityTypeIdentifierBloodPressureDiastolic",
     "HKQuantityTypeIdentifierRespiratoryRate",
     "HKQuantityTypeIdentifierOxygenSaturation",
     "HKQuantityTypeIdentifierFlightsClimbed",
     "HKQuantityTypeIdentifierAppleStandHours",
     "HKQuantityTypeIdentifierAppleExerciseTime",
     "HKQuantityTypeIdentifierEnvironmentalAudioExposure",
     "HKQuantityTypeIdentifierHeadphoneAudioExposure",
     "HKCategoryTypeIdentifierMindfulSession"}

\* the record types of a source: one the table lists, one it does not
RecordTypes ==
    {"HKQuantityTypeIdentifierStepCount", "HKQuantityTypeIdentifierDietaryWater"}
RecordValues == {"1500", ""}
StartDates == {"2024-01-01", "not-a-date"}
Durations == {"30", Undefined}

\* date windows a request of the ingestion session carries
Windows ==
    { [startDate |-> Null, endDate |-> Null],
      [startDate |-> "2024-02-01", endDate |-> "2024-03-01"] }

\* window bounds and start dates the filter is probed with
WindowBounds ==
    {Null, "", "2024-01-01", "2024-02-01", "2024-02-01T00:00:00Z",
     "2024-03-01", "not-a-date"}
ProbeDates ==
    {"2024-01-01", "2024-02-01", "2024-02-15", "2024-03-01", "2024-03-02",
     "not-a-date", Undefined}

\* sax.Tag as the opentag handler reads it. Of a record the model keeps
\* type, value and startDate; unit, endDate, sourceName and sourceVersion
\* are copied through by the handlers and never read.
RecordNodes ==
    { [name |-> "record", type |-> t, value |-> v, startdate |-> d,
       duration |-> Undefined] :
         t \in RecordTypes, v \in RecordValues, d \in StartDates }
WorkoutNodes ==
    { [name |-> "workout", type |-> Undefined, value |-> "Running",
       startdate |-> d, duration |-> u] :
         d \in StartDates, u \in Durations }
OtherNodes ==
    { [name |-> "metadataentry", type |-> Undefined, value |-> Undefined,
       startdate |-> Undefined, duration |-> Undefined] }
Nodes == RecordNodes \cup WorkoutNodes \cup OtherNodes

\* workout elements with every combination of the optional attributes
WorkoutProbeNodes ==
    { [name |-> "workout", type |-> Undefined, value |-> "Running",
       startdate |-> d, duration |-> u, totaldistance |-> td,
       totalenergyburned |-> te] :
         d \in ProbeDates, u \in Durations, td \in {"5.2", Undefined},
         te \in {"410", Undefined} }
NoNode ==
    [name |-> NotProbed, type |-> Undefined, value |-> Undefined,
     startdate |-> Undefined, duration |-> Undefined,
     totaldistance |-> Undefined, totalenergyburned |-> Undefined]

\* path.join(process.cwd(), "uploads", `${fileId}.xml`) for the fileIds two
\* requests can name
Paths == {"uploads/a.xml", "uploads/b.xml"}
\* filePath of the session that is modelled
SessionPath == "uploads/a.xml"
NoSession == [path |-> Null, ended |-> FALSE]

\* currentRecord = {}
EmptyRecord ==
    [type |-> Undefined, value |-> Undefined, startDate |-> Undefined, id |-> 0]

-----------------------------------------------------------------------------
(* Pure helpers of processXMLFile *)

\* dateRange?.startDate ? new Date(dateRange.startDate) : null
startDateFilter(dr) ==
    IF Truthy(dr.startDate)
    THEN [set |-> TRUE, t |-> ParseDate(dr.startDate)]
    ELSE [set |-> FALSE, t |-> NaN]

\* dateRange?.endDate ? new Date(dateRange.endDate) : null
endDateFilter(dr) ==
    IF Truthy(dr.endDate)
    THEN [set |-> TRUE, t |-> ParseDate(dr.endDate)]
    ELSE [set |-> FALSE, t |-> NaN]

isRelevantType(type) == type \in RelevantTypes

\* faulty variant: exclusive bounds (<= and >= in place of < and >)
isWithinDateRange_exclusive(startDate, dr) ==
    LET sf == startDateFilter(dr)
        ef == endDateFilter(dr)
        recordDate == ParseDate(startDate)
    IN  IF ~sf.set /\ ~ef.set THEN TRUE
        ELSE IF sf.set /\ (DateLt(recordDate, sf.t) \/ recordDate = sf.t)
             THEN FALSE
        ELSE IF ef.set /\ (DateGt(recordDate, ef.t) \/ recordDate = ef.t)
             THEN FALSE
        ELSE TRUE

isWithinDateRange(startDate, dr) ==
    LET sf == startDateFilter(dr)
        ef == endDateFilter(dr)
        recordDate == ParseDate(startDate)
    IN  IF ~sf.set /\ ~ef.set THEN TRUE
        ELSE IF sf.set /\ DateLt(recordDate, sf.t) THEN FALSE
        ELSE IF ef.set /\ DateGt(recordDate, ef.t) THEN FALSE
        ELSE TRUE

\* the records.push calls of the opentag handler's workout branch: the
\* workout itself, then its duration if the attribute is there
WorkoutRecords(node, id) ==
    LET workout ==
            [type |-> "HKWorkout", value |-> node.value,
             startDate |-> node.startdate, id |-> id]
        duration ==
            [type |-> "HKWorkoutDuration", value |-> node.duration,
             startDate |-> node.startdate, id |-> id]
    IN  IF Truthy(node.duration) THEN <<workout, duration>> ELSE <<workout>>

\* faulty variant: the counter grows by one per derived record
AfterWorkout_perRecord(rp, pushed) == rp + Len(pushed)

\* recordsProcessed += 1, after the pushes of the workout branch
AfterWorkout(rp, pushed) == rp + 1

\* faulty variant: the type table is applied to workouts too
WorkoutPasses_classified(node, dr) ==
    isRelevantType(node.type) /\ isWithinDateRange(node.startdate, dr)

\* if (!isWithinDateRange(workoutStartDate)) return
WorkoutPasses(node, dr) == isWithinDateRange(node.startdate, dr)

\* StreamingProgressUpdate, as enqueued
Update(type, recs, rp, bp, tb, err) ==
    [type |-> type, records |-> recs, recordsProcessed |-> rp,
     bytesProcessed |-> bp, totalBytes |-> tb, error |-> err]

\* if (records.length >= BATCH_SIZE)
FlushNeeded(recs) == Len(recs) >= BATCH_SIZE

\* faulty variant: the flushed records stay in the array
AfterFlush_keep(recs) == recs

\* records.length = 0
AfterFlush(recs) == <<>>

\* faulty variant: a candidate without a value is kept
Accepted_typeOnly(rec) == Truthy(rec.type)

\* if (currentRecord.type && currentRecord.value)
Accepted(rec) == Truthy(rec.type) /\ Truthy(rec.value)

\* if (recordsProcessed % 5000 === 0)
ProgressDue(rp) == rp % ProgressEvery = 0

\* controller.enqueue succeeds only on a readable stream whose close has not
\* been requested; otherwise it throws a TypeError
Writable == ~closeRequested /\ ~cancelled

catchPending == promise = "rejected" /\ ~catchRan

\* the current task has finished and no microtask is waiting
BetweenTasks ==
    pc \in {"reading", "stopped", "ended", "crashed"} /\ ~catchPending

QueueSize == IF cancelled THEN 0 ELSE Len(out) - delivered

extractorVars ==
    <<records, recordsProcessed, currentRecord, isInRecord, isInWorkout,
      nextId, closedAccepted, appended>>
callerVars == <<delivered, cancelled>>
promiseVars == <<promise, reason, catchRan>>
filterVars == <<filterArg, filterResult, probeNode, probeRecords>>
fileVars == <<files, fdOpen, other>>

\* reject(error): only the first settlement of a promise counts
Reject(r) ==
    /\ promise' = IF promise = "pending" THEN "rejected" ELSE promise
    /\ reason' = IF promise = "pending" THEN r ELSE reason
    /\ UNCHANGED catchRan

\* local state of one processXMLFile call, before the first event
NoExtraction ==
    [records |-> <<>>, sent |-> <<>>, currentRecord |-> EmptyRecord,
     isInRecord |-> FALSE]

\* no source has been fed to the two handlers
NoSource ==
    [stack |-> <<>>, opened |-> 0, new |-> NoExtraction, old |-> NoExtraction]

\* the mutation before it is called: no upload record exists
NoUpload ==
    [pc |-> "idle", batches |-> <<>>, inserted |-> 0, status |-> "none",
     rows |-> <<>>]

\* the component before a file is dropped
NoClient ==
    [wire |-> <<>>, pos |-> 0, filteredRecords |-> <<>>,
     uploadStatus |-> "idle", done |-> FALSE, onErrorCalls |-> 0,
     saved |-> FALSE]

-----------------------------------------------------------------------------
(* Initial state: the request has arrived, POST has not built the stream *)

InitSession ==
    /\ pc = "init"
    /\ records = <<>>
    /\ bytesProcessed = 0
    /\ totalBytes = 0
    /\ recordsProcessed = 0
    /\ currentRecord = EmptyRecord
    /\ isInRecord = FALSE
    /\ isInWorkout = FALSE
    /\ out = <<>>
    /\ delivered = 0
    /\ closeRequested = FALSE
    /\ cancelled = FALSE
    /\ promise = "pending"
    /\ reason = ""
    /\ catchRan = FALSE
    /\ unlinkAttempts = 0
    /\ escaped = FALSE
    /\ stack = <<>>
    /\ piped = TRUE
    /\ nOpened = 0
    /\ nextId = 1
    /\ truncated = FALSE
    /\ closedAccepted = 0
    /\ appended = 0
    /\ filterArg = NotProbed
    /\ filterResult = FALSE
    /\ probeNode = NoNode
    /\ probeRecords = <<>>
    /\ files = [p \in Paths |-> TRUE]
    /\ fdOpen = FALSE
    /\ other = NoSession
    /\ client = NoClient
    /\ both = NoSource
    /\ upload = NoUpload

Init ==
    /\ dateRange \in Windows
    /\ InitSession

-----------------------------------------------------------------------------
(* POST: new ReadableStream({start}) calls processXMLFile *)

\* statSync(filePath) throws: reject(error); return
StatFail ==
    /\ pc = "init"
    /\ Reject("stat")
    /\ pc' = "stopped"
    /\ UNCHANGED <<dateRange, client, both, upload, fileVars, extractorVars, callerVars, filterVars, out,
                   closeRequested, bytesProcessed, totalBytes, unlinkAttempts,
                   escaped, stack, piped, nOpened, truncated>>

\* statSync succeeds: the handlers are registered and the file is piped
Start(size) ==
    /\ pc = "init"
    /\ totalBytes' = size
    /\ pc' = "reading"
    /\ UNCHANGED <<dateRange, client, both, upload, fileVars, extractorVars, callerVars, promiseVars,
                   filterVars, out, closeRequested, bytesProcessed,
                   unlinkAttempts, escaped, stack, piped, nOpened, truncated>>

\* readStream.on("data"): count the chunk, then pipe writes it to the parser
\* (the stream has opened the file by the time it delivers a chunk)
ReadData(n) ==
    /\ pc = "reading"
    /\ ~catchPending
    /\ bytesProcessed + n <= totalBytes
    /\ bytesProcessed' = bytesProcessed + n
    /\ pc' = "inchunk"
    /\ fdOpen' = TRUE
    /\ UNCHANGED <<dateRange, client, both, upload, files, other, extractorVars, callerVars, promiseVars,
                   filterVars, out, closeRequested, totalBytes,
                   unlinkAttempts, escaped, stack, piped, nOpened, truncated>>

\* parser.write(chunk) has returned
ChunkDone ==
    /\ pc = "inchunk"
    /\ pc' = IF piped THEN "reading" ELSE "stopped"
    /\ UNCHANGED <<dateRange, client, both, upload, fileVars, extractorVars, callerVars, promiseVars,
                   filterVars, out, closeRequested, bytesProcessed, totalBytes,
                   unlinkAttempts, escaped, stack, piped, nOpened, truncated>>

\* readStream.on("error"): the stream is destroyed, nothing more is read
ReadError ==
    /\ pc = "reading"
    /\ ~catchPending
    /\ Reject("read")
    /\ pc' = "stopped"
    /\ piped' = FALSE
    /\ UNCHANGED <<dateRange, client, both, upload, fileVars, extractorVars, callerVars, filterVars, out,
                   closeRequested, bytesProcessed, totalBytes, unlinkAttempts,
                   escaped, stack, nOpened, truncated>>

\* readStream ends: pipe calls parser.end(), which reports an error first
\* when the document is unfinished (a tag cut short, or elements left open)
ReadEnd(cut) ==
    /\ pc = "reading"
    /\ ~catchPending
    /\ bytesProcessed = totalBytes
    /\ cut => bytesProcessed > 0
    /\ truncated' = cut
    /\ fdOpen' = TRUE
    /\ pc' = IF cut \/ stack # <<>> THEN "enderror" ELSE "onend"
    /\ UNCHANGED <<dateRange, client, both, upload, files, other, extractorVars, callerVars, promiseVars,
                   filterVars, out, closeRequested, bytesProcessed, totalBytes,
                   unlinkAttempts, escaped, stack, piped, nOpened>>

-----------------------------------------------------------------------------
(* Handlers of the sax stream *)

\* parser.on("opentag"), for any start tag of the source
OnOpenTag(node) ==
    /\ pc = "inchunk"
    /\ nOpened' = nOpened + 1
    /\ stack' = Append(stack, node.name)
    /\ IF node.name = "record"
       THEN IF ~isRelevantType(node.type)
               \/ ~isWithinDateRange(node.startdate, dateRange)
            THEN UNCHANGED extractorVars
            ELSE /\ isInRecord' = TRUE
                 /\ currentRecord' =
                        [type |-> node.type, value |-> node.value,
                         startDate |-> node.startdate, id |-> nextId]
                 /\ nextId' = nextId + 1
                 /\ UNCHANGED <<records, recordsProcessed, isInWorkout,
                                closedAccepted, appended>>
       ELSE IF node.name = "workout"
       THEN IF ~WorkoutPasses(node, dateRange)
            THEN UNCHANGED extractorVars
            ELSE LET pushed == WorkoutRecords(node, nextId)
                 IN  /\ isInWorkout' = TRUE
                     /\ records' = records \o pushed
                     /\ appended' = appended + Len(pushed)
                     /\ recordsProcessed' = AfterWorkout(recordsProcessed, pushed)
                     /\ nextId' = nextId + 1
                     /\ UNCHANGED <<currentRecord, isInRecord, closedAccepted>>
       ELSE UNCHANGED extractorVars
    /\ UNCHANGED <<dateRange, client, both, upload, fileVars, pc, callerVars, promiseVars, filterVars, out,
                   closeRequested, bytesProcessed, totalBytes, unlinkAttempts,
                   escaped, piped, truncated>>

\* the start tags of a source of at most MaxElements elements
OpenTag(node) ==
    /\ nOpened < MaxElements
    /\ OnOpenTag(node)

\* parser.on("closetag"), fired for the innermost open element. An enqueue
\* on a stream that is closed or cancelled throws: the exception leaves the
\* handler, parser.write and the read loop, and the session goes no further.
CloseTag ==
    /\ pc = "inchunk"
    /\ stack # <<>>
    /\ stack' = SubSeq(stack, 1, Len(stack) - 1)
    /\ LET tagName == stack[Len(stack)]
           closing == tagName = "record" /\ isInRecord
           accept == closing /\ Accepted(currentRecord)
           recs == IF accept THEN Append(records, currentRecord) ELSE records
           rp == IF accept THEN recordsProcessed + 1 ELSE recordsProcessed
           batch == Update("record", recs, rp, bytesProcessed, totalBytes, "")
           progress == Update("progress", <<>>, rp, bytesProcessed, totalBytes, "")
           flush == FlushNeeded(recs)
       IN  /\ isInRecord' = IF closing THEN FALSE ELSE isInRecord
           /\ currentRecord' = IF closing THEN EmptyRecord ELSE currentRecord
           /\ isInWorkout' =
                  IF ~closing /\ tagName = "workout" THEN FALSE ELSE isInWorkout
           /\ recordsProcessed' = rp
           /\ closedAccepted' = IF accept THEN closedAccepted + 1 ELSE closedAccepted
           /\ appended' = IF accept THEN appended + 1 ELSE appended
           /\ IF (flush \/ ProgressDue(rp)) /\ ~Writable
              THEN /\ records' = recs
                   /\ escaped' = TRUE
                   /\ pc' = "crashed"
                   /\ UNCHANGED out
              ELSE /\ records' = IF flush THEN AfterFlush(recs) ELSE recs
                   /\ out' = out \o (IF flush THEN <<batch>> ELSE <<>>)
                                 \o (IF ProgressDue(rp) THEN <<progress>> ELSE <<>>)
                   /\ UNCHANGED <<escaped, pc>>
    /\ UNCHANGED <<dateRange, client, both, upload, fileVars, callerVars, promiseVars, filterVars, nextId,
                   closeRequested, bytesProcessed, totalBytes, unlinkAttempts,
                   piped, nOpened, truncated>>

\* parser.on("error"): reject(error). pipe's own listener unpipes the source
\* from the parser; the sax stream then clears the error and parses on to
\* the end of the chunk it was given.
ParserError ==
    /\ \/ /\ pc = "inchunk"
          /\ UNCHANGED pc
       \/ /\ pc = "enderror"
          /\ pc' = "onend"
    /\ Reject("parse")
    /\ piped' = FALSE
    /\ UNCHANGED <<dateRange, client, both, upload, fileVars, extractorVars, callerVars, filterVars, out,
                   closeRequested, bytesProcessed, totalBytes, unlinkAttempts,
                   escaped, stack, nOpened, truncated>>

\* faulty variant: no completion signal when nothing is buffered
CompleteEvents_nonempty(recs, rp, tb) ==
    IF Len(recs) > 0 THEN <<Update("complete", recs, rp, tb, tb, "")>> ELSE <<>>

\* faulty variant: the completion signal reports a counter of its own
CompleteEvents_zeroCounter(recs, rp, tb) ==
    <<Update("complete", recs, 0, tb, tb, "")>>

\* the update parser.on("end") enqueues: the buffered records if any remain,
\* an empty list otherwise
CompleteEvents(recs, rp, tb) ==
    IF Len(recs) > 0
    THEN <<Update("complete", recs, rp, tb, tb, "")>>
    ELSE <<Update("complete", <<>>, rp, tb, tb, "")>>

\* faulty variant: the file is deleted even when the enqueue threw
EndUnlinks_always(enqueued) == TRUE

\* unlinkAsync(filePath) follows the enqueue of `complete` in the end
\* handler: it is reached only when that enqueue returned
EndUnlinks(enqueued) == enqueued

\* parser.on("end"): enqueue complete, unlink the file, close, resolve
OnEnd ==
    /\ pc = "onend"
    /\ unlinkAttempts' =
           IF EndUnlinks(Writable) THEN unlinkAttempts + 1 ELSE unlinkAttempts
    /\ files' =
           IF EndUnlinks(Writable)
           THEN [files EXCEPT ![SessionPath] = FALSE]
           ELSE files
    /\ IF Writable
       THEN /\ out' = out \o CompleteEvents(records, recordsProcessed, totalBytes)
            /\ closeRequested' = TRUE
            /\ promise' = IF promise = "pending" THEN "resolved" ELSE promise
            /\ pc' = "ended"
            /\ UNCHANGED escaped
       ELSE /\ escaped' = TRUE
            /\ pc' = "crashed"
            /\ UNCHANGED <<out, closeRequested, promise>>
    /\ UNCHANGED <<dateRange, client, both, upload, fdOpen, other, extractorVars, callerVars,
                   filterVars, reason, catchRan, bytesProcessed, totalBytes,
                   stack, piped, nOpened, truncated>>

\* processXMLFile(...).catch(...) in POST: enqueue the error update, close
CatchHandler ==
    /\ catchPending
    /\ pc \in {"stopped", "ended", "crashed"}
    /\ catchRan' = TRUE
    /\ IF Writable
       THEN /\ out' = Append(out, Update("error", <<>>, 0, 0, 0, reason))
            /\ closeRequested' = TRUE
            /\ UNCHANGED escaped
       ELSE /\ escaped' = TRUE
            /\ UNCHANGED <<out, closeRequested>>
    /\ UNCHANGED <<dateRange, client, both, upload, fileVars, pc, extractorVars, callerVars, filterVars,
                   promise, reason, bytesProcessed, totalBytes, unlinkAttempts,
                   stack, piped, nOpened, truncated>>

-----------------------------------------------------------------------------
(* The caller of the event stream *)

\* the caller reads the next queued chunk
Consume ==
    /\ BetweenTasks
    /\ ~cancelled
    /\ delivered < Len(out)
    /\ delivered' = delivered + 1
    /\ UNCHANGED <<dateRange, client, both, upload, fileVars, pc, extractorVars, promiseVars, filterVars, out,
                   closeRequested, cancelled, bytesProcessed,
                   totalBytes, unlinkAttempts, escaped, stack, piped, nOpened,
                   truncated>>

\* the caller cancels (or disconnects) before a terminal update was
\* enqueued: the stream has no cancel callback, so the queue is dropped and
\* the session is told nothing. (Once close was requested the session has
\* nothing left to do, and a cancel changes nothing it does.)
Cancel ==
    /\ BetweenTasks
    /\ ~cancelled
    /\ ~closeRequested
    /\ cancelled' = TRUE
    /\ UNCHANGED <<dateRange, client, both, upload, fileVars, pc, extractorVars, promiseVars, filterVars, out,
                   delivered, closeRequested, bytesProcessed, totalBytes,
                   unlinkAttempts, escaped, stack, piped, nOpened, truncated>>

Next ==
    \/ StatFail
    \/ \E size \in 0..MaxBytes : Start(size)
    \/ \E n \in 1..MaxBytes : ReadData(n)
    \/ \E node \in Nodes : OpenTag(node)
    \/ CloseTag
    \/ ParserError
    \/ ChunkDone
    \/ ReadError
    \/ \E cut \in BOOLEAN : ReadEnd(cut)
    \/ OnEnd
    \/ CatchHandler
    \/ Consume
    \/ Cancel

Spec == Init /\ [][Next]_vars

-----------------------------------------------------------------------------
(* The date filter on its own: every window a request can carry, probed   *)
(* with every kind of start date                                           *)

FilterInit ==
    /\ dateRange \in [startDate : WindowBounds, endDate : WindowBounds]
    /\ InitSession

\* isWithinDateRange(startDate) as the opentag handler calls it
Probe(startDate) ==
    /\ pc = "init"
    /\ filterArg' = startDate
    /\ filterResult' = isWithinDateRange(startDate, dateRange)
    /\ UNCHANGED <<probeNode, probeRecords>>
    /\ UNCHANGED <<dateRange, client, both, upload, fileVars, pc, extractorVars, callerVars, promiseVars, out,
                   closeRequested, bytesProcessed, totalBytes, unlinkAttempts,
                   escaped, stack, piped, nOpened, truncated>>

FilterNext == \E startDate \in ProbeDates : Probe(startDate)

FilterSpec == FilterInit /\ [][FilterNext]_vars

-----------------------------------------------------------------------------
(* The workout branch of the opentag handler on its own *)

WorkoutInit ==
    /\ dateRange \in Windows
    /\ InitSession

\* parser.on("opentag") for a workout element, on an empty buffer
ProbeWorkout(node) ==
    /\ pc = "init"
    /\ probeNode' = node
    /\ probeRecords' =
           IF ~isWithinDateRange(node.startdate, dateRange)
           THEN <<>>
           ELSE WorkoutRecords(node, 1)
    /\ UNCHANGED <<filterArg, filterResult>>
    /\ UNCHANGED <<dateRange, client, both, upload, fileVars, pc, extractorVars, callerVars, promiseVars, out,
                   closeRequested, bytesProcessed, totalBytes, unlinkAttempts,
                   escaped, stack, piped, nOpened, truncated>>

WorkoutNext == \E node \in WorkoutProbeNodes : ProbeWorkout(node)

WorkoutSpec == WorkoutInit /\ [][WorkoutNext]_vars

-----------------------------------------------------------------------------
(* One source of 2B < N < 3B qualifying records, read to its end without   *)
(* error: a root element, N Record elements, and child elements inside the *)
(* records as a health export has them                                     *)

\* the smallest N with 2B < N < 3B
ScenarioN == 2 * BATCH_SIZE + 1

RootNode ==
    [name |-> "healthdata", type |-> Undefined, value |-> Undefined,
     startdate |-> Undefined, duration |-> Undefined]
QualifyingRecord ==
    [name |-> "record", type |-> "HKQuantityTypeIdentifierStepCount",
     value |-> "1500", startdate |-> "2024-01-01", duration |-> Undefined]
ScenarioNodes == {RootNode, QualifyingRecord} \cup OtherNodes

ScenarioInit ==
    /\ dateRange = [startDate |-> Null, endDate |-> Null]
    /\ InitSession

\* the start tags of the source: the root, then up to N records under it,
\* then child elements of a record (no more of them than records so far)
ScenarioOpen(node) ==
    /\ \/ /\ stack = <<>>
          /\ nOpened = 0
          /\ node = RootNode
       \/ /\ stack = <<"healthdata">>
          /\ nextId <= ScenarioN
          /\ node = QualifyingRecord
       \/ /\ stack = <<"healthdata", "record">>
          /\ nOpened - nextId < nextId - 1
          /\ node \in OtherNodes
    /\ OnOpenTag(node)

\* the source ends after the root closed with all N records accepted
ScenarioEnd ==
    /\ stack = <<>>
    /\ closedAccepted = ScenarioN
    /\ ReadEnd(FALSE)

ScenarioNext ==
    \/ \E size \in 1..MaxBytes : Start(size)
    \/ \E n \in 1..MaxBytes : ReadData(n)
    \/ \E node \in ScenarioNodes : ScenarioOpen(node)
    \/ CloseTag
    \/ ChunkDone
    \/ ScenarioEnd
    \/ OnEnd

ScenarioSpec == ScenarioInit /\ [][ScenarioNext]_vars

-----------------------------------------------------------------------------
(* The streaming handler of upload/route.ts: no type or date filter, no    *)
(* batches, and an end handler that awaits the deletion of the file        *)

\* the request of upload/route.ts carries no date window
LegacyInit ==
    /\ dateRange = [startDate |-> Null, endDate |-> Null]
    /\ InitSession

\* parser.on("opentag") of upload/route.ts
LegacyOpenTag(node) ==
    /\ pc = "inchunk"
    /\ nOpened < MaxElements
    /\ nOpened' = nOpened + 1
    /\ stack' = Append(stack, node.name)
    /\ IF node.name = "record"
       THEN /\ isInRecord' = TRUE
            /\ currentRecord' =
                   [type |-> node.type, value |-> node.value,
                    startDate |-> node.startdate, id |-> nextId]
            /\ nextId' = nextId + 1
            /\ UNCHANGED <<records, recordsProcessed, isInWorkout,
                           closedAccepted, appended>>
       ELSE IF node.name = "workout"
       THEN LET pushed == WorkoutRecords(node, nextId)
            IN  /\ isInWorkout' = TRUE
                /\ records' = records \o pushed
                /\ appended' = appended + Len(pushed)
                /\ recordsProcessed' = AfterWorkout(recordsProcessed, pushed)
                /\ nextId' = nextId + 1
                /\ UNCHANGED <<currentRecord, isInRecord, closedAccepted>>
       ELSE UNCHANGED extractorVars
    /\ UNCHANGED <<dateRange, client, both, upload, fileVars, pc, callerVars, promiseVars, filterVars, out,
                   closeRequested, bytesProcessed, totalBytes, unlinkAttempts,
                   escaped, piped, truncated>>

\* parser.on("closetag") of upload/route.ts
LegacyCloseTag ==
    /\ pc = "inchunk"
    /\ stack # <<>>
    /\ stack' = SubSeq(stack, 1, Len(stack) - 1)
    /\ LET tagName == stack[Len(stack)]
           closing == tagName = "record" /\ isInRecord
           accept == closing /\ Accepted(currentRecord)
           rp == IF accept THEN recordsProcessed + 1 ELSE recordsProcessed
           due == rp % LegacyProgressEvery = 0
           progress == Update("progress", <<>>, rp, bytesProcessed, totalBytes, "")
       IN  /\ isInRecord' = IF closing THEN FALSE ELSE isInRecord
           /\ currentRecord' = IF closing THEN EmptyRecord ELSE currentRecord
           /\ isInWorkout' =
                  IF ~closing /\ tagName = "workout" THEN FALSE ELSE isInWorkout
           /\ records' = IF accept THEN Append(records, currentRecord) ELSE records
           /\ recordsProcessed' = rp
           /\ closedAccepted' = IF accept THEN closedAccepted + 1 ELSE closedAccepted
           /\ appended' = IF accept THEN appended + 1 ELSE appended
           /\ IF due /\ ~Writable
              THEN /\ escaped' = TRUE
                   /\ pc' = "crashed"
                   /\ UNCHANGED out
              ELSE /\ out' = out \o (IF due THEN <<progress>> ELSE <<>>)
                   /\ UNCHANGED <<escaped, pc>>
    /\ UNCHANGED <<dateRange, client, both, upload, fileVars, callerVars, promiseVars, filterVars, nextId,
                   closeRequested, bytesProcessed, totalBytes, unlinkAttempts,
                   piped, nOpened, truncated>>

\* parser.on("end") of upload/route.ts, up to `await unlinkAsync(filePath)`:
\* the complete update is enqueued inside the try block, so a failed enqueue
\* is caught and rejects the promise
LegacyOnEnd ==
    /\ pc = "onend"
    /\ IF Writable
       THEN /\ out' = Append(out, Update("complete", records, recordsProcessed,
                                         totalBytes, totalBytes, ""))
            /\ pc' = "unlinking"
            /\ UNCHANGED promiseVars
       ELSE /\ Reject("enqueue")
            /\ pc' = "ended"
            /\ UNCHANGED out
    /\ UNCHANGED <<dateRange, client, both, upload, fileVars, extractorVars, callerVars, filterVars,
                   closeRequested, bytesProcessed, totalBytes, unlinkAttempts,
                   escaped, stack, piped, nOpened, truncated>>

\* the deletion settles and the end handler resumes: on success it closes
\* the stream and resolves; a failed deletion, or a close on a stream that
\* is closed already, lands in the catch block, which rejects
LegacyUnlinkDone(ok) ==
    /\ pc = "unlinking"
    /\ ~catchPending
    /\ unlinkAttempts' = unlinkAttempts + 1
    /\ pc' = "ended"
    /\ files' = IF ok THEN [files EXCEPT ![SessionPath] = FALSE] ELSE files
    /\ IF ~ok
       THEN /\ Reject("unlink")
            /\ UNCHANGED closeRequested
       ELSE IF Writable
       THEN /\ closeRequested' = TRUE
            /\ promise' = IF promise = "pending" THEN "resolved" ELSE promise
            /\ UNCHANGED <<reason, catchRan>>
       ELSE /\ Reject("close")
            /\ UNCHANGED closeRequested
    /\ UNCHANGED <<dateRange, client, both, upload, fdOpen, other, extractorVars, callerVars, filterVars, out,
                   bytesProcessed, totalBytes, escaped, stack, piped, nOpened,
                   truncated>>

\* processXMLFile(...).catch(...) in POST of upload/route.ts
LegacyCatchHandler ==
    /\ catchPending
    /\ pc \in {"stopped", "unlinking", "ended", "crashed"}
    /\ catchRan' = TRUE
    /\ IF Writable
       THEN /\ out' = Append(out, Update("error", <<>>, 0, 0, 0, reason))
            /\ closeRequested' = TRUE
            /\ UNCHANGED escaped
       ELSE /\ escaped' = TRUE
            /\ UNCHANGED <<out, closeRequested>>
    /\ UNCHANGED <<dateRange, client, both, upload, fileVars, pc, extractorVars, callerVars, filterVars,
                   promise, reason, bytesProcessed, totalBytes, unlinkAttempts,
                   stack, piped, nOpened, truncated>>

LegacyNext ==
    \/ StatFail
    \/ \E size \in 0..MaxBytes : Start(size)
    \/ \E n \in 1..MaxBytes : ReadData(n)
    \/ \E node \in Nodes : LegacyOpenTag(node)
    \/ LegacyCloseTag
    \/ ParserError
    \/ ChunkDone
    \/ ReadError
    \/ \E cut \in BOOLEAN : ReadEnd(cut)
    \/ LegacyOnEnd
    \/ \E ok \in BOOLEAN : LegacyUnlinkDone(ok)
    \/ LegacyCatchHandler

LegacySpec == LegacyInit /\ [][LegacyNext]_vars

-----------------------------------------------------------------------------
(* Two sessions of the server at once. The session modelled above runs     *)
(* next to a second one, of which the model keeps what it does to the      *)
(* uploads directory: its end handler deletes the file its request named.  *)
(* The file system fails only for a file that is not there.                *)

\* a second request arrives, naming any fileId
OtherStart(p) ==
    /\ other.path = Null
    /\ pc = "init" \/ BetweenTasks
    /\ files[p]
    /\ other' = [path |-> p, ended |-> FALSE]
    /\ UNCHANGED <<dateRange, client, both, upload, files, fdOpen, pc, extractorVars, callerVars,
                   promiseVars, filterVars, out, closeRequested,
                   bytesProcessed, totalBytes, unlinkAttempts, escaped, stack,
                   piped, nOpened, truncated>>

\* the end handler of the second session: unlinkAsync(filePath)
OtherEnd ==
    /\ other.path # Null
    /\ ~other.ended
    /\ pc = "init" \/ BetweenTasks
    /\ other' = [other EXCEPT !.ended = TRUE]
    /\ files' = [files EXCEPT ![other.path] = FALSE]
    /\ UNCHANGED <<dateRange, client, both, upload, fdOpen, pc, extractorVars, callerVars,
                   promiseVars, filterVars, out, closeRequested,
                   bytesProcessed, totalBytes, unlinkAttempts, escaped, stack,
                   piped, nOpened, truncated>>

\* statSync(filePath) on a file that is there
PairStart(size) == files[SessionPath] /\ Start(size)
\* statSync(filePath) throws ENOENT
PairStatFail == ~files[SessionPath] /\ StatFail
\* an open descriptor outlives the deletion of its file
Readable == fdOpen \/ files[SessionPath]
PairReadData(n) == Readable /\ ReadData(n)
PairReadEnd(cut) == Readable /\ ReadEnd(cut)
\* createReadStream finds no file to open: readStream.on("error")
PairOpenFail == ~Readable /\ ReadError

PairNext ==
    \/ \E p \in Paths : OtherStart(p)
    \/ OtherEnd
    \/ \E size \in 0..MaxBytes : PairStart(size)
    \/ PairStatFail
    \/ \E n \in 1..MaxBytes : PairReadData(n)
    \/ \E cut \in BOOLEAN : PairReadEnd(cut)
    \/ PairOpenFail
    \/ \E node \in Nodes : OpenTag(node)
    \/ CloseTag
    \/ ParserError
    \/ ChunkDone
    \/ OnEnd
    \/ CatchHandler

PairSpec == Init /\ [][PairNext]_vars

-----------------------------------------------------------------------------
(* One source, read under every split into chunks:                         *)
(*   <HealthData> &bad; <Record .../> ... <Record .../> </HealthData>      *)
(* a root, a markup error, then BATCH_SIZE + 1 qualifying records          *)

FixedRecords == BATCH_SIZE + 1

\* <HealthData>
FixedOpenRoot ==
    /\ nOpened = 0
    /\ OnOpenTag(RootNode)

\* the malformed markup, right after the root's start tag
FixedError ==
    /\ pc = "inchunk"
    /\ nOpened = 1
    /\ promise = "pending"
    /\ ParserError

\* <Record .../>: the start tag and, in the same chunk or the next, its end
FixedOpenRecord ==
    /\ nOpened \in 1..FixedRecords
    /\ promise # "pending"
    /\ stack = <<"healthdata">>
    /\ OnOpenTag(QualifyingRecord)

\* the end tag of a record, or </HealthData> after the last record
FixedClose ==
    /\ \/ Len(stack) = 2
       \/ Len(stack) = 1 /\ nOpened = FixedRecords + 1
    /\ promise # "pending"
    /\ CloseTag

FixedNext ==
    \/ \E size \in 1..MaxBytes : Start(size)
    \/ \E n \in 1..MaxBytes : ReadData(n)
    \/ FixedOpenRoot
    \/ FixedError
    \/ FixedOpenRecord
    \/ FixedClose
    \/ ChunkDone
    \/ CatchHandler
    \/ Consume

FixedSpec == ScenarioInit /\ [][FixedNext]_vars

-----------------------------------------------------------------------------
(* A record that the opentag handler rejects, met while Idle: the source   *)
(* is a workout element, closed, then the rejected record with any         *)
(* elements inside it                                                      *)

Idle == ~isInRecord /\ ~isInWorkout

\* record elements whose type the table does not list or whose start date
\* is a point in time outside the window of the request
RejectedNodes(dr) ==
    { n \in RecordNodes :
        \/ n.type \notin RelevantTypes
        \/ /\ Truthy(dr.startDate)
           /\ DateLt(ParseDate(n.startdate), ParseDate(dr.startDate))
        \/ /\ Truthy(dr.endDate)
           /\ DateGt(ParseDate(n.startdate), ParseDate(dr.endDate)) }

\* the first element of the source: a workout
PrefixOpen(node) ==
    /\ nOpened = 0
    /\ OnOpenTag(node)

\* the second element, opened when the first has closed: the rejected record
RejectedOpen(node) ==
    /\ nOpened = 1
    /\ stack = <<>>
    /\ Idle
    /\ node \in RejectedNodes(dateRange)
    /\ OnOpenTag(node)

\* up to MaxElements elements inside the rejected record
NestedOpen(node) ==
    /\ nOpened >= 2
    /\ nOpened < MaxElements + 2
    /\ stack # <<>>
    /\ OnOpenTag(node)

RejectNext ==
    \/ \E size \in 1..MaxBytes : Start(size)
    \/ \E n \in 1..MaxBytes : ReadData(n)
    \/ \E node \in WorkoutNodes : PrefixOpen(node)
    \/ \E node \in RecordNodes : RejectedOpen(node)
    \/ \E node \in Nodes : NestedOpen(node)
    \/ CloseTag
    \/ ChunkDone

RejectSpec == Init /\ [][RejectNext]_vars

-----------------------------------------------------------------------------
(* Workouts against the window: the source is any element, then a workout  *)
(* that starts outside the window, then a workout that starts inside it    *)

\* workouts whose start date is a point in time outside the window
OutsideWorkouts(dr) ==
    { n \in WorkoutProbeNodes :
        \/ /\ Truthy(dr.startDate)
           /\ DateLt(ParseDate(n.startdate), ParseDate(dr.startDate))
        \/ /\ Truthy(dr.endDate)
           /\ DateGt(ParseDate(n.startdate), ParseDate(dr.endDate)) }

\* workouts whose start date is a point in time inside the window
InsideWorkouts(dr) ==
    { n \in WorkoutProbeNodes \ OutsideWorkouts(dr) :
        ParseDate(n.startdate) # NaN }

\* the first element of the source
FirstOpen(node) ==
    /\ nOpened = 0
    /\ OnOpenTag(node)

\* the second start tag
OutsideWorkoutOpen(node) ==
    /\ nOpened = 1
    /\ node \in OutsideWorkouts(dateRange)
    /\ OnOpenTag(node)

\* the third start tag
InsideWorkoutOpen(node) ==
    /\ nOpened = 2
    /\ node \in InsideWorkouts(dateRange)
    /\ OnOpenTag(node)

WorkoutFilterNext ==
    \/ \E size \in 1..MaxBytes : Start(size)
    \/ \E n \in 1..MaxBytes : ReadData(n)
    \/ \E node \in Nodes : FirstOpen(node)
    \/ \E node \in WorkoutProbeNodes : OutsideWorkoutOpen(node)
    \/ \E node \in WorkoutProbeNodes : InsideWorkoutOpen(node)
    \/ CloseTag
    \/ ChunkDone

WorkoutFilterSpec == Init /\ [][WorkoutFilterNext]_vars

-----------------------------------------------------------------------------
(* Observations on the emitted updates *)

PcValues ==
    {"init", "reading", "inchunk", "enderror", "onend", "ended", "stopped",
     "crashed"}

TypeOK ==
    /\ pc \in PcValues
    /\ promise \in {"pending", "resolved", "rejected"}
    /\ bytesProcessed \in 0..totalBytes
    /\ delivered \in 0..Len(out)
    /\ unlinkAttempts \in 0..1
    /\ nOpened \in 0..MaxElements

IsRecordEvent(e) == e.type = "record"
IsCompleteEvent(e) == e.type = "complete"
IsErrorEvent(e) == e.type = "error"
IsMeasurement(r) == r.type \notin {"HKWorkout", "HKWorkoutDuration"}

RECURSIVE Flatten(_)
Flatten(evs) ==
    IF evs = <<>> THEN <<>> ELSE Head(evs).records \o Flatten(Tail(evs))

\* the records of all `record` and `complete` updates, in order
DeliveredRecords == Flatten(out)
DeliveredMeasurements == SelectSeq(DeliveredRecords, IsMeasurement)

NoDuplicates(seq) ==
    \A i, j \in 1..Len(seq) : seq[i] = seq[j] => i = j

\* the end handler ran to its last statement and no error was ever reported
NormalEnd == pc = "ended" /\ promise = "resolved"

\* nothing of the session is left to run
Quiescent == pc \in {"ended", "stopped", "crashed"} /\ ~catchPending

-----------------------------------------------------------------------------
(* The caller: onDrop of the HealthDataUpload component reads the response *)
(* of /api/parse-xml. Each update travels as one line "data: {...}"; the   *)
(* transport hands the bytes over in chunks of its own choosing, so a line *)
(* arrives whole or cut in two (each line counts two units: its head and   *)
(* its tail).                                                              *)

WireRecord(i) ==
    [type |-> "HKQuantityTypeIdentifierStepCount", value |-> "1500",
     startDate |-> "2024-01-01", id |-> i]

\* the i-th update of a response
WireUpdate(t, i) ==
    CASE t = "record" -> Update("record", <<WireRecord(i)>>, i, 1, 1, "")
      [] t = "progress" -> Update("progress", <<>>, i, 1, 1, "")
      [] t = "complete" -> Update("complete", <<WireRecord(i)>>, i, 1, 1, "")
      [] OTHER -> Update("error", <<>>, 0, 0, 0, "parse")

\* responses of the server: record and progress updates, then complete or
\* error
Wires ==
    { [i \in 1..(Len(pre) + 1) |->
          IF i <= Len(pre) THEN WireUpdate(pre[i], i) ELSE WireUpdate(last, i)] :
        pre \in UNION { [1..k -> {"record", "progress"}] : k \in 0..MaxWire },
        last \in {"complete", "error"} }

\* the lines that lie whole inside the chunk of units pos+1 .. pos+n: a head
\* without its tail fails JSON.parse (caught and logged), a tail without its
\* head does not start with "data: " and is skipped
WholeLines(wire, pos, n) == SubSeq(wire, (pos + 3) \div 2, (pos + n) \div 2)

\* the for loop over the lines of one chunk: record and complete updates are
\* appended to filteredRecords; the Error thrown for an error update is
\* caught by the catch around JSON.parse and logged
AfterChunk(acc, lines) ==
    acc \o Flatten(SelectSeq(lines,
               LAMBDA e : e.type = "record" \/ e.type = "complete"))

\* fetch("/api/parse-xml") has answered: setUploadStatus("processing") and
\* the reader is taken
ClientStart(w) ==
    /\ pc = "init"
    /\ client.uploadStatus = "idle"
    /\ client' = [NoClient EXCEPT !.wire = w, !.uploadStatus = "processing"]
    /\ UNCHANGED <<dateRange, both, upload, fileVars, pc, extractorVars,
                   callerVars,
                   promiseVars, filterVars, out, closeRequested,
                   bytesProcessed, totalBytes, unlinkAttempts, escaped, stack,
                   piped, nOpened, truncated>>

\* one turn of the while loop: reader.read() yields a chunk of n units
ClientRead(n) ==
    /\ client.uploadStatus = "processing"
    /\ ~client.done
    /\ client.pos + n <= 2 * Len(client.wire)
    /\ client' =
           [client EXCEPT
               !.pos = @ + n,
               !.filteredRecords =
                   AfterChunk(@, WholeLines(client.wire, client.pos, n))]
    /\ UNCHANGED <<dateRange, both, upload, fileVars, pc, extractorVars,
                   callerVars,
                   promiseVars, filterVars, out, closeRequested,
                   bytesProcessed, totalBytes, unlinkAttempts, escaped, stack,
                   piped, nOpened, truncated>>

\* reader.read() rejects: the outer catch sets the error status
ClientReadFail ==
    /\ client.uploadStatus = "processing"
    /\ ~client.done
    /\ client' = [client EXCEPT !.uploadStatus = "error", !.done = TRUE,
                                !.onErrorCalls = @ + 1]
    /\ UNCHANGED <<dateRange, both, upload, fileVars, pc, extractorVars,
                   callerVars,
                   promiseVars, filterVars, out, closeRequested,
                   bytesProcessed, totalBytes, unlinkAttempts, escaped, stack,
                   piped, nOpened, truncated>>

\* reader.read() yields done: uploadHealthData.mutateAsync is awaited, then
\* success is reported, or the outer catch runs when the mutation throws
ClientSave(ok) ==
    /\ client.uploadStatus = "processing"
    /\ ~client.done
    /\ client.pos = 2 * Len(client.wire)
    /\ client' =
           [client EXCEPT
               !.saved = TRUE,
               !.done = TRUE,
               !.uploadStatus = IF ok THEN "success" ELSE "error",
               !.onErrorCalls = IF ok THEN @ ELSE @ + 1]
    /\ UNCHANGED <<dateRange, both, upload, fileVars, pc, extractorVars,
                   callerVars,
                   promiseVars, filterVars, out, closeRequested,
                   bytesProcessed, totalBytes, unlinkAttempts, escaped, stack,
                   piped, nOpened, truncated>>

ClientNext ==
    \/ \E w \in Wires : ClientStart(w)
    \/ \E n \in 1..(2 * (MaxWire + 1)) : ClientRead(n)
    \/ ClientReadFail
    \/ \E ok \in BOOLEAN : ClientSave(ok)

ClientSpec == ScenarioInit /\ [][ClientNext]_vars

-----------------------------------------------------------------------------
(* The batching handler (parse-xml/route.ts) and the handler without       *)
(* batches (upload/route.ts) on one well-formed source and no date window: *)
(* a root element and up to MaxElements elements inside it. A record keeps *)
(* the number of its element in the source as its id.                      *)

NoWindow == [startDate |-> Null, endDate |-> Null]

\* opentag of parse-xml/route.ts on the local state st
NewOpen(st, node, id) ==
    IF node.name = "record"
    THEN IF ~isRelevantType(node.type)
            \/ ~isWithinDateRange(node.startdate, NoWindow)
         THEN st
         ELSE [st EXCEPT !.isInRecord = TRUE,
                         !.currentRecord =
                             [type |-> node.type, value |-> node.value,
                              startDate |-> node.startdate, id |-> id]]
    ELSE IF node.name = "workout"
    THEN IF ~WorkoutPasses(node, NoWindow)
         THEN st
         ELSE [st EXCEPT !.records = @ \o WorkoutRecords(node, id)]
    ELSE st

\* closetag of parse-xml/route.ts: the records of a flushed batch move to
\* the updates sent
NewClose(st, tagName) ==
    LET closing == tagName = "record" /\ st.isInRecord
        recs == IF closing /\ Accepted(st.currentRecord)
                THEN Append(st.records, st.currentRecord)
                ELSE st.records
        flush == FlushNeeded(recs)
    IN  [records |-> IF flush THEN AfterFlush(recs) ELSE recs,
         sent |-> IF flush THEN st.sent \o recs ELSE st.sent,
         currentRecord |-> IF closing THEN EmptyRecord ELSE st.currentRecord,
         isInRecord |-> IF closing THEN FALSE ELSE st.isInRecord]

\* opentag of upload/route.ts
OldOpen(st, node, id) ==
    IF node.name = "record"
    THEN [st EXCEPT !.isInRecord = TRUE,
                    !.currentRecord =
                        [type |-> node.type, value |-> node.value,
                         startDate |-> node.startdate, id |-> id]]
    ELSE IF node.name = "workout"
    THEN [st EXCEPT !.records = @ \o WorkoutRecords(node, id)]
    ELSE st

\* closetag of upload/route.ts
OldClose(st, tagName) ==
    LET closing == tagName = "record" /\ st.isInRecord
    IN  [records |-> IF closing /\ Accepted(st.currentRecord)
                     THEN Append(st.records, st.currentRecord)
                     ELSE st.records,
         sent |-> st.sent,
         currentRecord |-> IF closing THEN EmptyRecord ELSE st.currentRecord,
         isInRecord |-> IF closing THEN FALSE ELSE st.isInRecord]

\* a start tag of the source reaches both handlers
BothOpen(node) ==
    /\ pc = "init"
    /\ \/ both.opened = 0 /\ node = RootNode
       \/ /\ both.stack # <<>>
          /\ both.opened <= MaxElements
          /\ node \in Nodes
    /\ both' = [stack |-> Append(both.stack, node.name),
                opened |-> both.opened + 1,
                new |-> NewOpen(both.new, node, both.opened + 1),
                old |-> OldOpen(both.old, node, both.opened + 1)]
    /\ UNCHANGED <<dateRange, client, upload, fileVars, pc, extractorVars,
                   callerVars,
                   promiseVars, filterVars, out, closeRequested,
                   bytesProcessed, totalBytes, unlinkAttempts, escaped, stack,
                   piped, nOpened, truncated>>

\* the end tag of the innermost open element reaches both handlers
BothClose ==
    /\ pc = "init"
    /\ both.stack # <<>>
    /\ LET tagName == both.stack[Len(both.stack)]
       IN  both' = [stack |-> SubSeq(both.stack, 1, Len(both.stack) - 1),
                    opened |-> both.opened,
                    new |-> NewClose(both.new, tagName),
                    old |-> OldClose(both.old, tagName)]
    /\ UNCHANGED <<dateRange, client, upload, fileVars, pc, extractorVars,
                   callerVars,
                   promiseVars, filterVars, out, closeRequested,
                   bytesProcessed, totalBytes, unlinkAttempts, escaped, stack,
                   piped, nOpened, truncated>>

BothNext ==
    \/ \E node \in Nodes \cup {RootNode} : BothOpen(node)
    \/ BothClose

BothSpec == ScenarioInit /\ [][BothNext]_vars

-----------------------------------------------------------------------------
(* healthRouter.uploadHealthData: the upload record is created, the health *)
(* records are inserted batch by batch, and the status of the upload       *)
(* record is updated. Every database call either takes effect and resolves *)
(* or rejects without effect.                                              *)

\* inputs of the mutation: the start dates of input.healthRecords
UploadInputs ==
    UNION { [1..n -> StartDates] : n \in 0..MaxUpload }

\* the slices input.healthRecords.slice(i, i + batchSize), i = 0, batchSize, ...
Batches(recs) ==
    [k \in 1..((Len(recs) + batchSize - 1) \div batchSize) |->
        SubSeq(recs, (k - 1) * batchSize + 1,
               IF k * batchSize < Len(recs) THEN k * batchSize ELSE Len(recs))]

\* healthDataUpload.create, then the batches are sliced
UploadCreate(recs, ok) ==
    /\ pc = "init"
    /\ upload.pc = "idle"
    /\ upload' = IF ok
                 THEN [upload EXCEPT !.pc = "inserting",
                                     !.status = "PROCESSING",
                                     !.batches = Batches(recs)]
                 ELSE [upload EXCEPT !.pc = "threw"]
    /\ UNCHANGED <<dateRange, client, both, fileVars, pc, extractorVars,
                   callerVars, promiseVars, filterVars, out, closeRequested,
                   bytesProcessed, totalBytes, unlinkAttempts, escaped, stack,
                   piped, nOpened, truncated>>

\* healthRecord.createMany of the next batch
UploadInsert(ok) ==
    /\ upload.pc = "inserting"
    /\ upload.inserted < Len(upload.batches)
    /\ upload' = IF ok
                 THEN [upload EXCEPT !.inserted = @ + 1,
                                     !.rows = @ \o upload.batches[upload.inserted + 1]]
                 ELSE [upload EXCEPT !.pc = "catch"]
    /\ UNCHANGED <<dateRange, client, both, fileVars, pc, extractorVars,
                   callerVars, promiseVars, filterVars, out, closeRequested,
                   bytesProcessed, totalBytes, unlinkAttempts, escaped, stack,
                   piped, nOpened, truncated>>

\* healthDataUpload.update to COMPLETED after the last batch, then return
UploadMarkCompleted(ok) ==
    /\ upload.pc = "inserting"
    /\ upload.inserted = Len(upload.batches)
    /\ upload' = IF ok
                 THEN [upload EXCEPT !.pc = "returned", !.status = "COMPLETED"]
                 ELSE [upload EXCEPT !.pc = "catch"]
    /\ UNCHANGED <<dateRange, client, both, fileVars, pc, extractorVars,
                   callerVars, promiseVars, filterVars, out, closeRequested,
                   bytesProcessed, totalBytes, unlinkAttempts, escaped, stack,
                   piped, nOpened, truncated>>

\* the catch block: healthDataUpload.update to FAILED, then throw; a
\* rejected update leaves the catch block before its throw statement
UploadMarkFailed(ok) ==
    /\ upload.pc = "catch"
    /\ upload' = [upload EXCEPT !.pc = "threw",
                                !.status = IF ok THEN "FAILED" ELSE @]
    /\ UNCHANGED <<dateRange, client, both, fileVars, pc, extractorVars,
                   callerVars, promiseVars, filterVars, out, closeRequested,
                   bytesProcessed, totalBytes, unlinkAttempts, escaped, stack,
                   piped, nOpened, truncated>>

UploadNext ==
    \/ \E recs \in UploadInputs, ok \in BOOLEAN : UploadCreate(recs, ok)
    \/ \E ok \in BOOLEAN : UploadInsert(ok)
    \/ \E ok \in BOOLEAN : UploadMarkCompleted(ok)
    \/ \E ok \in BOOLEAN : UploadMarkFailed(ok)

UploadSpec == ScenarioInit /\ [][UploadNext]_vars

-----------------------------------------------------------------------------
(* Claims *)

\* C1: when the source was parsed to end-of-stream without error, the
\* measurement records carried by the `record` updates and the `complete`
\* update are as many as the Closed("record") events handled with a complete
\* candidate, and none of them appears twice.
C1_NoRecordDroppedOrDuplicated ==
    NormalEnd =>
        /\ Len(DeliveredMeasurements) = closedAccepted
        /\ NoDuplicates(DeliveredMeasurements)

C1_Witness ==
    /\ NormalEnd
    /\ closedAccepted = 2
    /\ \E i \in 1..Len(out) :
           out[i].type = "record" /\ Len(SelectSeq(out[i].records, IsMeasurement)) = 2

\* C2 (as claimed): every `record` update carries exactly BATCH_SIZE records
\* and the `complete` update carries (records appended) mod BATCH_SIZE.
C2_BatchesCarryExactlyB ==
    \A i \in 1..Len(out) :
        /\ out[i].type = "record" => Len(out[i].records) = BATCH_SIZE
        /\ out[i].type = "complete" =>
               Len(out[i].records) = appended % BATCH_SIZE

\* C3 (as claimed): the temporary file's deletion is attempted exactly once
\* on every exit path: once the terminal update is out and the stream is
\* closed, unlink has been called once, and never more than once.
C3_CleanupExactlyOnce ==
    /\ unlinkAttempts <= 1
    /\ (closeRequested /\ Quiescent) => unlinkAttempts = 1

\* C4 (as claimed): a source cut in the middle of a tag ends the session
\* with exactly one `error` update, no `complete` update, and the file
\* deleted.
C4_TruncatedEndsWithOneError ==
    (truncated /\ Quiescent /\ ~cancelled) =>
        /\ Len(SelectSeq(out, IsErrorEvent)) = 1
        /\ Len(SelectSeq(out, IsCompleteEvent)) = 0
        /\ unlinkAttempts = 1

\* C5 (as claimed): after a scanner error or a source I/O error the session
\* has enqueued exactly one `error` update carrying the reason, as the last
\* update before the close, and no exception has escaped (an enqueue on a
\* closed stream throws).
C5_ErrorsBecomeOneTerminalError ==
    (promise = "rejected" /\ Quiescent /\ ~cancelled) =>
        /\ Len(SelectSeq(out, IsErrorEvent)) = 1
        /\ out[Len(out)].type = "error"
        /\ out[Len(out)].error = reason
        /\ closeRequested
        /\ ~escaped

\* C6: on normal end-of-stream exactly one `complete` update is emitted, it
\* is the last update, the stream is closed after it, and it carries the
\* records still buffered (an empty list when none are) and the final
\* recordsProcessed.
C6_CompleteIsLastOnNormalEnd ==
    NormalEnd =>
        /\ closeRequested
        /\ Len(SelectSeq(out, IsCompleteEvent)) = 1
        /\ out # <<>>
        /\ out[Len(out)].type = "complete"
        /\ out[Len(out)].records = records
        /\ out[Len(out)].recordsProcessed = recordsProcessed

\* every record of the source was filtered out by the date window
C6_Witness ==
    /\ NormalEnd
    /\ Truthy(dateRange.startDate)
    /\ nOpened > 0
    /\ recordsProcessed = 0
    /\ out[Len(out)].type = "complete"
    /\ out[Len(out)].records = <<>>

\* C7 (as claimed): the session reads the next chunk of the source only
\* while the caller keeps up: no chunk is read while the updates enqueued
\* and not yet consumed have reached the stream's high-water mark.
C7_ReadPausesUnderBackpressure ==
    [][(pc = "reading" /\ pc' = "inchunk") => QueueSize < HighWaterMark]_vars

\* C8 (as claimed): once the caller has cancelled, the session enqueues
\* nothing more on the stream (an enqueue there throws), and when it has
\* come to rest the temporary file's deletion has been attempted.
C8_CancelStopsAndCleansUp ==
    cancelled =>
        /\ ~escaped
        /\ Quiescent => unlinkAttempts = 1

-----------------------------------------------------------------------------
(* Claims on the date filter, under FilterSpec *)

Probed == filterArg # NotProbed
WindowSet == Truthy(dateRange.startDate) \/ Truthy(dateRange.endDate)

\* t >= bound and t <= bound on timestamps: neither holds of an unparsable one
DateGe(a, b) == a # NaN /\ b # NaN /\ a >= b
DateLe(a, b) == a # NaN /\ b # NaN /\ a <= b

\* what the window asks of a start timestamp t
InWindow(t, dr) ==
    /\ Truthy(dr.startDate) => DateGe(t, ParseDate(dr.startDate))
    /\ Truthy(dr.endDate) => DateLe(t, ParseDate(dr.endDate))

\* every bound the window sets is a parsable timestamp
WindowParsable(dr) ==
    /\ Truthy(dr.startDate) => ParseDate(dr.startDate) # NaN
    /\ Truthy(dr.endDate) => ParseDate(dr.endDate) # NaN

\* C9 (as claimed): a start timestamp that cannot be parsed is excluded
\* whenever a window bound is set, and included when none is.
C9_UnparsableExcludedUnderWindow ==
    (Probed /\ ParseDate(filterArg) = NaN) => (filterResult <=> ~WindowSet)

\* C10 (as claimed): for a parsable start timestamp t and any window, the
\* filter answers true exactly when t >= start (if set) and t <= end (if set).
C10_InRangeIffWithinBounds ==
    (Probed /\ ParseDate(filterArg) # NaN) =>
        (filterResult <=> InWindow(ParseDate(filterArg), dateRange))

\* C10 (amended): the same, for every window whose set bounds are parsable
\* timestamps.
C10_InRangeIffWithinParsableBounds ==
    (Probed /\ ParseDate(filterArg) # NaN /\ WindowParsable(dateRange)) =>
        (filterResult <=> InWindow(ParseDate(filterArg), dateRange))

\* a start timestamp equal to a bound of the window, by instant and not by
\* spelling, is included
C10_Witness ==
    /\ Probed
    /\ filterArg = "2024-02-01"
    /\ dateRange.startDate = "2024-02-01T00:00:00Z"
    /\ dateRange.endDate = "2024-02-01"
    /\ filterResult

-----------------------------------------------------------------------------
(* Claims on the workout decomposition, under WorkoutSpec *)

WorkoutProbed == probeNode.name = "workout"
WorkoutAccepted ==
    WorkoutProbed /\ isWithinDateRange(probeNode.startdate, dateRange)

\* how many of duration, total distance, total energy burned are present
PresentCount(node) ==
    (IF Truthy(node.duration) THEN 1 ELSE 0)
    + (IF Truthy(node.totaldistance) THEN 1 ELSE 0)
    + (IF Truthy(node.totalenergyburned) THEN 1 ELSE 0)

\* C11 (as claimed): an accepted workout element is decomposed at open time
\* into exactly 1 + k records, k being the number of duration, total
\* distance and total energy burned attributes present, the workout itself
\* first, all sharing the workout's start.
C11_WorkoutYieldsOnePlusK ==
    WorkoutAccepted =>
        /\ Len(probeRecords) = 1 + PresentCount(probeNode)
        /\ probeRecords[1].type = "HKWorkout"
        /\ \A i \in 1..Len(probeRecords) :
               probeRecords[i].startDate = probeNode.startdate

-----------------------------------------------------------------------------
(* Claims on progress updates, under Spec *)

\* the updates a step adds to the stream
NewUpdates == SubSeq(out', Len(out) + 1, Len(out'))
IsProgressEvent(e) == e.type = "progress"

\* C12 (as claimed): a `progress` update is emitted only by a step that
\* appends a record and brings the accepted-record counter to a positive
\* multiple of the progress cadence, and at most once by that step: never
\* while the counter is 0 and never on a close that leaves it unchanged.
C12_ProgressOnlyAfterAppendAtCadence ==
    [][Len(SelectSeq(NewUpdates, IsProgressEvent)) > 0 =>
          /\ Len(SelectSeq(NewUpdates, IsProgressEvent)) = 1
          /\ appended' > appended
          /\ recordsProcessed' > 0
          /\ recordsProcessed' % ProgressEvery = 0]_vars

\* recordsProcessed of the `progress` updates, in order
ProgressCounters ==
    LET p == SelectSeq(out, IsProgressEvent)
    IN  [i \in 1..Len(p) |-> p[i].recordsProcessed]

ScenarioDone == pc = "ended" /\ closedAccepted = ScenarioN

\* C13 (as claimed): a source of N qualifying records, 2B < N < 3B, read to
\* its end yields exactly two `record` batches of B records each, `progress`
\* updates exactly at counters B and 2B, and one final `complete` update
\* with the remaining N - 2B records.
C13_ScenarioEventSequence ==
    ScenarioDone =>
        /\ LET b == SelectSeq(out, IsRecordEvent)
           IN  /\ Len(b) = 2
               /\ \A i \in 1..Len(b) : Len(b[i].records) = BATCH_SIZE
        /\ ProgressCounters = <<ProgressEvery, 2 * ProgressEvery>>
        /\ Len(SelectSeq(out, IsCompleteEvent)) = 1
        /\ out[Len(out)].type = "complete"
        /\ Len(out[Len(out)].records) = ScenarioN - 2 * BATCH_SIZE

-----------------------------------------------------------------------------
(* Claims on errors and cleanup *)

\* C14 (as claimed): when a markup error ends the session, every record
\* appended before the `error` update was enqueued is carried by a `record`
\* update that precedes it, and none is left in the in-memory buffer.
C14_AcceptedFlushedBeforeError ==
    \A i \in 1..Len(out) :
        (out[i].type = "error" /\ out[i].error = "parse") =>
            /\ records = <<>>
            /\ Len(Flatten(SelectSeq(SubSeq(out, 1, i - 1), IsRecordEvent)))
                   = appended

\* C15 (as claimed): in both XML-processing handlers a failed deletion of
\* the temporary file never becomes the result of the session, and no
\* `error` update is caused by it: `complete` stays the only terminal update.
C15_UnlinkFailureIsNotFatal ==
    /\ ~(promise = "rejected" /\ reason = "unlink")
    /\ \A i \in 1..Len(out) : out[i].type = "error" => out[i].error # "unlink"

-----------------------------------------------------------------------------
(* Claims on concurrent sessions, under PairSpec *)

\* Alone, on a file system that fails only for a missing file, the session
\* finds its file in place from statSync to the end of the read: it never
\* fails on stat or read.
FileFailures == {"stat", "read"}

\* C16 (as claimed): a session that runs next to another one observes what
\* it would observe alone, whatever file the other request names: its
\* promise is never rejected for a missing file and no `error` update
\* reports one.
C16_SessionsIndependent ==
    /\ ~(promise = "rejected" /\ reason \in FileFailures)
    /\ \A i \in 1..Len(out) :
           out[i].type = "error" => out[i].error \notin FileFailures

-----------------------------------------------------------------------------
(* Claims on the split of the source into chunks, under FixedSpec *)

\* what the run that reads the whole source as one chunk delivers: the
\* first BATCH_SIZE records after the error, flushed as one batch
SingleChunkRecords ==
    [i \in 1..BATCH_SIZE |->
        [type |-> QualifyingRecord.type, value |-> QualifyingRecord.value,
         startDate |-> QualifyingRecord.startdate, id |-> i]]

SingleChunkRun ==
    /\ Quiescent
    /\ bytesProcessed = 1
    /\ stack = <<>>
    /\ DeliveredRecords = SingleChunkRecords

\* C17 (as claimed): every run over the same source delivers the same
\* records in the same order, however the source is split into chunks:
\* each finished run delivers what the single-chunk run delivers.
C17_SameRecordsUnderEverySplit ==
    Quiescent => DeliveredRecords = SingleChunkRecords

-----------------------------------------------------------------------------
(* Claims on the records and on the extractor's steps, under Spec *)

\* new Date(s) is a valid point in time
ValidTimestamp(s) == ParseDate(s) # NaN

\* C18 (as claimed): every record delivered in a `record` or `complete`
\* update has a start timestamp that parses as a valid point in time (the
\* end timestamp is copied through unread and is not part of the model).
C18_DeliveredTimestampsValid ==
    \A i \in 1..Len(DeliveredRecords) :
        ValidTimestamp(DeliveredRecords[i].startDate)

\* a step of the closetag handler on the end tag of a record, taken while
\* a candidate is in progress
ClosesCandidate ==
    /\ isInRecord
    /\ stack # <<>>
    /\ stack[Len(stack)] = "record"
    /\ Len(stack') = Len(stack) - 1

\* the candidate is the last record of the buffer, or of the batch the step
\* has flushed
CandidateAppended ==
    \/ /\ records' # <<>>
       /\ records'[Len(records')] = currentRecord
    \/ /\ records' = <<>>
       /\ Len(out') > Len(out)
       /\ \E i \in (Len(out) + 1)..Len(out') :
              /\ out'[i].type = "record"
              /\ out'[i].records # <<>>
              /\ out'[i].records[Len(out'[i].records)] = currentRecord

\* the candidate is neither in the buffer nor in an update after the step
CandidateDropped ==
    /\ \A i \in 1..Len(records') : records'[i].id # currentRecord.id
    /\ \A i \in 1..Len(out') :
           \A j \in 1..Len(out'[i].records) :
               out'[i].records[j].id # currentRecord.id

\* the candidate in progress is in no buffer and no update
CandidateHeldBack ==
    isInRecord =>
        /\ \A i \in 1..Len(records) : records[i].id # currentRecord.id
        /\ \A i \in 1..Len(DeliveredRecords) :
               DeliveredRecords[i].id # currentRecord.id

-----------------------------------------------------------------------------
(* Claims on a rejected record, under RejectSpec *)

\* the step is the rejected record's start tag, or is taken between that
\* start tag and the matching end tag (that end tag included)
InRejectedRecord ==
    \/ nOpened = 1 /\ nOpened' = 2
    \/ nOpened >= 2 /\ stack # <<>>

\* C20 (as claimed): from the Opened("record") that is rejected while Idle
\* through the matching Closed("record"), the extractor stays Idle and the
\* batch, the accepted-record counter and the candidate are unchanged.
C20_RejectedRecordChangesNothing ==
    [][InRejectedRecord =>
          /\ Idle'
          /\ UNCHANGED <<records, recordsProcessed, currentRecord>>]_vars

-----------------------------------------------------------------------------
(* Claims on the counters, under Spec *)

\* workouts accepted so far: each pushed one HKWorkout record, which is in
\* the buffer or in an update
WorkoutsAccepted ==
    LET all == DeliveredRecords \o records
    IN  Cardinality({ all[i].id : i \in { j \in 1..Len(all) :
                                            all[j].type = "HKWorkout" } })

\* C21: the accepted-record counter grows by one per accepted workout, not
\* per derived record: it always equals the accepted measurement records
\* plus the accepted workouts, and every `record`, `progress` and `complete`
\* update carries that number as of its emission.
C21_CounterCountsWorkoutsOnce ==
    [][/\ recordsProcessed' = closedAccepted' + WorkoutsAccepted'
       /\ \A i \in 1..Len(NewUpdates) :
              NewUpdates[i].type # "error" =>
                  NewUpdates[i].recordsProcessed
                      = closedAccepted' + WorkoutsAccepted']_vars

\* a batch of two derived records of one workout went out with counter 1
C21_Witness ==
    \E i \in 1..Len(out) :
        /\ out[i].type = "record"
        /\ Len(out[i].records) = 2
        /\ out[i].records[2].type = "HKWorkoutDuration"
        /\ out[i].recordsProcessed = 1

-----------------------------------------------------------------------------
(* Claims on the workout branch, under WorkoutFilterSpec *)

\* C22: a workout is accepted or rejected on its start date alone, never on
\* its type: one that starts outside the window appends nothing, leaves the
\* counter alone and does not set isInWorkout; one that starts inside it is
\* accepted whatever its type attribute.
C22_WorkoutFilteredByDateOnly ==
    [][/\ (nOpened = 1 /\ nOpened' = 2) =>
              UNCHANGED <<records, recordsProcessed, appended, isInWorkout>>
       /\ (nOpened = 2 /\ nOpened' = 3) =>
              /\ isInWorkout'
              /\ recordsProcessed' = recordsProcessed + 1
              /\ Len(records') > Len(records)
              /\ records'[Len(records) + 1].type = "HKWorkout"]_vars

\* an outside workout was dropped and an inside workout accepted after it
C22_Witness ==
    /\ Truthy(dateRange.startDate)
    /\ nOpened = 3
    /\ nextId = 2
    /\ isInWorkout
    /\ recordsProcessed = 1
    /\ records # <<>>
    /\ records[1].type = "HKWorkout"

-----------------------------------------------------------------------------
(* Claims on other elements, cleanup and counters, under Spec *)

ExtractorNames == {"record", "workout"}

\* the step handles the start tag or the end tag of an element that is
\* neither a record nor a workout
OtherElementEvent ==
    \/ /\ Len(stack') = Len(stack) + 1
       /\ stack'[Len(stack')] \notin ExtractorNames
    \/ /\ Len(stack') = Len(stack) - 1
       /\ stack[Len(stack)] \notin ExtractorNames

\* C23 (as claimed): an Opened or Closed event of an element that is
\* neither record nor workout changes no extractor state (buffer, counter,
\* candidate, in-record and in-workout flags) and emits no update.
C23_OtherElementsIgnored ==
    [][OtherElementEvent =>
          UNCHANGED <<records, recordsProcessed, currentRecord, isInRecord,
                      isInWorkout, out>>]_vars

\* C24: the temporary file is deleted only after the `complete` update was
\* enqueued: whenever unlinkAsync has been called, or the file is gone,
\* `complete` is among the updates, and the step that calls unlinkAsync is
\* the one that enqueues it.
C24_UnlinkOnlyAfterComplete ==
    [][/\ (unlinkAttempts' > 0 \/ ~files'[SessionPath]) =>
              \E i \in 1..Len(out') : out'[i].type = "complete"
       /\ unlinkAttempts' > unlinkAttempts =>
              /\ Len(NewUpdates) = 1
              /\ NewUpdates[1].type = "complete"]_vars

\* a normal end: complete enqueued, the file deleted
C24_Witness ==
    /\ NormalEnd
    /\ unlinkAttempts = 1
    /\ ~files[SessionPath]
    /\ out[Len(out)].type = "complete"

-----------------------------------------------------------------------------
(* Claims on the HealthDataUpload component, under ClientSpec *)

WireHasError ==
    \E i \in 1..Len(client.wire) : client.wire[i].type = "error"

\* C25 (as claimed): when the response carries an `error` update, the
\* component never calls uploadHealthData and never reports success, and it
\* finishes in the error status with onError called.
C25_ErrorEventEndsInError ==
    WireHasError =>
        /\ ~client.saved
        /\ client.uploadStatus # "success"
        /\ client.done =>
               client.uploadStatus = "error" /\ client.onErrorCalls = 1

\* C26 (as claimed): once the whole response was read, filteredRecords holds
\* every record of every `record` and `complete` update, in order, however
\* the bytes were split into chunks.
C26_ReaderAccumulatesEveryRecord ==
    (client.wire # <<>> /\ client.pos = 2 * Len(client.wire)) =>
        client.filteredRecords = Flatten(client.wire)

-----------------------------------------------------------------------------
(* Claims on the buffer and the counters, under Spec *)

\* C27 (as claimed): after every run of the closetag handler the buffer
\* holds fewer than BATCH_SIZE records, and the buffer reaches BATCH_SIZE
\* only by the pushes of a workout's start tag.
C27_BufferBelowBatchAfterClose ==
    [][/\ Len(stack') = Len(stack) - 1 => Len(records') < BATCH_SIZE
       /\ (Len(records) < BATCH_SIZE /\ Len(records') >= BATCH_SIZE) =>
              /\ Len(stack') = Len(stack) + 1
              /\ stack'[Len(stack')] = "workout"]_vars

\* the updates that carry counters (an `error` update carries none)
Counted == SelectSeq(out, LAMBDA e : e.type # "error")

\* C28: over the updates of one session recordsProcessed and bytesProcessed
\* never decrease, bytesProcessed never exceeds totalBytes, and `complete`
\* reports bytesProcessed = totalBytes and the largest recordsProcessed.
C28_CountersMonotone ==
    /\ \A i, j \in 1..Len(Counted) :
           i <= j =>
               /\ Counted[i].recordsProcessed <= Counted[j].recordsProcessed
               /\ Counted[i].bytesProcessed <= Counted[j].bytesProcessed
    /\ \A i \in 1..Len(Counted) :
           /\ Counted[i].bytesProcessed <= Counted[i].totalBytes
           /\ Counted[i].totalBytes = totalBytes
           /\ Counted[i].type = "complete" =>
                  /\ Counted[i].bytesProcessed = totalBytes
                  /\ \A j \in 1..Len(Counted) :
                         Counted[j].recordsProcessed
                             <= Counted[i].recordsProcessed

\* a run of two chunks with a progress update, a batch and the completion
C28_Witness ==
    /\ NormalEnd
    /\ totalBytes = 2
    /\ Len(out) >= 3
    /\ out[1].type = "progress" /\ out[1].bytesProcessed = 1
    /\ \E i \in 1..Len(out) : out[i].type = "record"
    /\ out[Len(out)].type = "complete"
    /\ out[Len(out)].recordsProcessed > 0

-----------------------------------------------------------------------------
(* Claims on the two handlers side by side, under BothSpec *)

\* the source has ended: its root element is closed
SourceEnded == both.opened > 0 /\ both.stack = <<>>

\* what the batching handler delivers: its batches, then the complete list
NewDelivered == both.new.sent \o both.new.records

\* the complete list of the other handler, restricted to the types the
\* table lists and the workout-derived types
OldRestricted ==
    SelectSeq(both.old.records,
              LAMBDA r : isRelevantType(r.type) \/ ~IsMeasurement(r))

\* C29 (as claimed): on a well-formed source with no date window, the
\* records the batching handler delivers are the records of the other
\* handler's complete list whose type is recognized or workout-derived, in
\* the same order.
C29_BatchingRefinesLegacy ==
    SourceEnded => NewDelivered = OldRestricted

-----------------------------------------------------------------------------
(* Claims on uploadHealthData, under UploadSpec *)

\* the mutation has returned or thrown and its upload record exists
UploadSettled ==
    upload.pc \in {"returned", "threw"} /\ upload.status # "none"

\* C30 (as claimed): the upload record starts as PROCESSING; once the
\* mutation has returned or thrown it is COMPLETED if and only if every
\* batch was inserted and FAILED otherwise, never PROCESSING; and a
\* COMPLETED or FAILED status is never changed again.
C30_UploadStatusFinal ==
    /\ [](upload.pc = "inserting" /\ upload.inserted = 0
              => upload.status = "PROCESSING")
    /\ [](UploadSettled =>
              IF upload.inserted = Len(upload.batches)
              THEN upload.status = "COMPLETED"
              ELSE upload.status = "FAILED")
    /\ [][upload.status \in {"COMPLETED", "FAILED"}
              => upload'.status = upload.status]_vars

====
